---- MODULE Spec2Model ----
(***************************************************************************)
(* Commission accrual, balance settlement and affiliate attribution of the *)
(* ALUG affiliate marketplace backend (src/server.js).                     *)
(*                                                                         *)
(* Money is counted in cents: every money column is DECIMAL(10,2).         *)
(* A commission_value is counted in hundredths (20.00 % is 2000, a fixed   *)
(* 15.00 is 1500).  Each await of a handler is a point where other         *)
(* requests run, so a handler with two queries is two actions.             *)
(***************************************************************************)
EXTENDS Integers, Sequences, FiniteSets, Bags, TLC

----------------------------------------------------------------------------
(* Bounds of the model *)

\* The whole system (Spec): ids handed out by the SERIAL sequences of all
\* tables, requests in flight and clock ticks, all together
MaxWork == 4

\* The payout ledger (SpecLedger)
LedgerMaxConversions == 1
LedgerMaxPayouts == 2

----------------------------------------------------------------------------
(* Inputs *)

\* The users table after createAdminUser and one registration.  Users are
\* never deleted by any route.
users ==
  { [id |-> 1, is_admin |-> TRUE],
    [id |-> 2, is_admin |-> FALSE] }

UserIds == { u.id : u \in users }

\* 10.00 in cents
MinimumPayout == 10 * 100

\* Commission rules an admin gives a product: (commission_type, commission_value)
CommissionRules ==
  { [commission_type |-> "percentage", commission_value |-> 2000],
    [commission_type |-> "fixed", commission_value |-> 1500] }

\* Gross amounts of a reported sale, in cents: 0.33, whose share of 20.00 % is
\* no whole number of cents, and 50.00
SaleAmounts == { 33, 5000 }

\* The sale the ledger is fed with: 50.00, a commission of exactly MinimumPayout
LedgerSaleAmounts == { 5000 }

\* Amounts of a payout request, in cents
PayoutAmounts == { MinimumPayout - 1, MinimumPayout }

Statuses == { "pending", "approved", "paid", "rejected" }

----------------------------------------------------------------------------
(* State *)

VARIABLES
  products,         \* rows of table products: id, commission_type, commission_value
  affiliate_links,  \* rows of table affiliate_links: id, user_id, product_id, link_code
  clicks,           \* rows of table clicks: id, link_id
  conversions,      \* rows of table conversions: id, link_id, amount, commission
  payouts,          \* rows of table payouts: id, user_id, amount, status, processed_at
  serial,           \* the SERIAL sequence of each table: the last id handed out
  now,              \* the clock behind Date.now() and CURRENT_TIMESTAMP
  payoutReqs,       \* payout requests between their balance query and their INSERT
  linkReqs,         \* generate requests between their lookup and their INSERT
  clickReqs,        \* click reports between their lookup and their INSERT
  conversionReqs,   \* conversion reports between their lookup and their INSERT
  res,              \* the last response sent
  release,          \* observer: a request followed at once by its rejection
  race              \* observer: requests of one user whose balance reads all
                    \* come before their INSERTs

vars ==
  << products, affiliate_links, clicks, conversions, payouts, serial, now,
     payoutReqs, linkReqs, clickReqs, conversionReqs, res, release, race >>

tables == << products, affiliate_links, clicks, conversions, payouts >>

----------------------------------------------------------------------------
(* Helpers *)

\* A TIMESTAMP column: NULL is the empty sequence, a value t is <<t>>
NullTime == << >>

RECURSIVE SumCommission(_)
\* SUM(c.commission) over a set of conversion rows, COALESCEd to 0
SumCommission(rows) ==
  IF rows = {} THEN 0
  ELSE LET r == CHOOSE x \in rows : TRUE
       IN r.commission + SumCommission(rows \ {r})

RECURSIVE SumAmount(_)
\* SUM(amount) over a set of payout rows, COALESCEd to 0
SumAmount(rows) ==
  IF rows = {} THEN 0
  ELSE LET r == CHOOSE x \in rows : TRUE
       IN r.amount + SumAmount(rows \ {r})

\* The commission as the handler computes it, in 1/10000 of a cent:
\* (amount * commission_value) / 100 for 'percentage', commission_value otherwise
Commission(commission_type, commission_value, amount) ==
  IF commission_type = "percentage"
  THEN amount * commission_value
  ELSE commission_value * (100 * 100)

\* A computed commission as the DECIMAL(10,2) column stores it: rounded to the cent
StoredCommission(commission) == (commission + (100 * 100) \div 2) \div (100 * 100)

\* The join reading each commission off the rule its product has now
ConversionsOf_CurrentRule(u) ==
  { [ c EXCEPT !.commission =
        StoredCommission(Commission(p.commission_type, p.commission_value, c.amount)) ] :
      c \in { d \in conversions :
                \E al \in affiliate_links : al.id = d.link_id /\ al.user_id = u },
      p \in { q \in products :
                \E al \in affiliate_links :
                  al.product_id = q.id /\ \E d \in conversions : d.link_id = al.id } }

\* FROM conversions c JOIN affiliate_links al ON c.link_id = al.id WHERE al.user_id = u
ConversionsOf(u) ==
  { c \in conversions :
      \E al \in affiliate_links : al.id = c.link_id /\ al.user_id = u }

\* The middleware letting every caller with a user row through
isAdmin_AnyUser(caller) == \E u \in users : u.id = caller

\* The isAdmin middleware reads the isAdmin claim of the caller's token,
\* which login copies from users.is_admin.
isAdmin(caller) == \E u \in users : u.id = caller /\ u.is_admin

\* What a request is answered with: the route, the caller of the token (0: no
\* token needed) and the kind of answer
Response(op, caller, kind) == [op |-> op, caller |-> caller, kind |-> kind]

NoRelease == [phase |-> "none", user_id |-> 0, amount |-> 0, id |-> 0, balance |-> 0]

NoRace == [user_id |-> 0, calls |-> 0, balance |-> 0, inserts |-> 0, inserted |-> 0]

----------------------------------------------------------------------------
(* Balance *)

\* The subquery subtracting every processed payout, the rejected ones too
CountsAgainstBalance_Processed(status) == status # "pending"

\* The payout statuses the balance subquery subtracts: AND status = 'paid'
CountsAgainstBalance(status) == status = "paid"

\* The subquery without its user_id condition
TotalPaid_AllUsers(u, rows) ==
  SumAmount({ p \in rows : CountsAgainstBalance(p.status) })

\* (SELECT SUM(amount) FROM payouts WHERE user_id = $1 AND status = 'paid')
TotalPaid(u, rows) ==
  SumAmount({ p \in rows : p.user_id = u /\ CountsAgainstBalance(p.status) })

\* The balance query of POST /api/payouts/request, over the payout rows given
BalanceOver(u, rows) == SumCommission(ConversionsOf(u)) - TotalPaid(u, rows)

\* available_balance as POST /api/payouts/request reads it
availableBalance(u) == BalanceOver(u, payouts)

\* The row GET /api/payouts/balance returns
PayoutsBalance(u) ==
  [ total_earned |-> SumCommission(ConversionsOf(u)),
    total_paid |-> SumAmount({ p \in payouts : p.user_id = u /\ p.status = "paid" }),
    available_balance |->
      SumCommission(ConversionsOf(u))
        - SumAmount({ p \in payouts : p.user_id = u /\ p.status = "paid" }) ]

----------------------------------------------------------------------------
(* Initial state: createTables has run, the tables are empty *)

Init ==
  /\ products = {}
  /\ affiliate_links = {}
  /\ clicks = {}
  /\ conversions = {}
  /\ payouts = {}
  /\ serial = [ products |-> 0, affiliate_links |-> 0, clicks |-> 0,
                conversions |-> 0, payouts |-> 0 ]
  /\ now = 0
  /\ payoutReqs = EmptyBag
  /\ linkReqs = EmptyBag
  /\ clickReqs = EmptyBag
  /\ conversionReqs = EmptyBag
  /\ res = Response("none", 0, "none")
  /\ release = NoRelease
  /\ race = NoRace

----------------------------------------------------------------------------
(* Requests in flight *)

Inflight ==
  BagCardinality(payoutReqs) + BagCardinality(linkReqs)
    + BagCardinality(clickReqs) + BagCardinality(conversionReqs)

\* The payout requests of user u that are past their balance check
PayoutReqsOf(u) == { req \in BagToSet(payoutReqs) : req.user_id = u }

\* Every step that is not one the observers follow resets them
Unobserved == release' = NoRelease /\ race' = NoRace

----------------------------------------------------------------------------
(* The clock *)

Tick ==
  /\ now' = now + 1
  /\ Unobserved
  /\ UNCHANGED << tables, serial, payoutReqs, linkReqs, clickReqs, conversionReqs, res >>

----------------------------------------------------------------------------
(* Middleware *)

AdminRoutes ==
  { "PostProducts", "PutProducts", "DeleteProducts", "PostTrackConversion",
    "PutAdminPayouts" }

\* isAdmin answering 403: the handler of the route never runs
AdminRequired(caller, op) ==
  /\ ~isAdmin(caller)
  /\ res' = Response(op, caller, "Forbidden")
  /\ Unobserved
  /\ UNCHANGED << tables, serial, now, payoutReqs, linkReqs, clickReqs, conversionReqs >>

----------------------------------------------------------------------------
(* Product routes *)

\* Product ids a caller may send: every id handed out, and the next one
ProductIds == 1 .. (serial.products + 1)

\* POST /api/products
PostProducts(caller, rule) ==
  /\ isAdmin(caller)
  /\ serial' = [serial EXCEPT !.products = @ + 1]
  /\ products' = products \cup
       { [ id |-> serial.products + 1,
           commission_type |-> rule.commission_type,
           commission_value |-> rule.commission_value ] }
  /\ res' = Response("PostProducts", caller, "OK")
  /\ Unobserved
  /\ UNCHANGED << affiliate_links, clicks, conversions, payouts, now,
                  payoutReqs, linkReqs, clickReqs, conversionReqs >>

\* UPDATE products SET ... WHERE id = $11
UpdateProducts(id, rule) ==
  { IF p.id = id
    THEN [p EXCEPT !.commission_type = rule.commission_type,
                   !.commission_value = rule.commission_value]
    ELSE p : p \in products }

\* PUT /api/products/:id
PutProducts(caller, id, rule) ==
  /\ isAdmin(caller)
  /\ products' = UpdateProducts(id, rule)
  /\ res' = IF \E p \in products : p.id = id
            THEN Response("PutProducts", caller, "OK")
            ELSE Response("PutProducts", caller, "NotFound")
  /\ Unobserved
  /\ UNCHANGED << affiliate_links, clicks, conversions, payouts, serial, now,
                  payoutReqs, linkReqs, clickReqs, conversionReqs >>

\* The reference without its ON DELETE CASCADE
LinksOfProduct_None(id) == {}

\* Links removed with a product: product_id REFERENCES products(id) ON DELETE CASCADE
LinksOfProduct(id) == { al \in affiliate_links : al.product_id = id }

\* DELETE /api/products/:id, with the cascades of createTables
DeleteProducts(caller, id) ==
  /\ isAdmin(caller)
  /\ LET gone == { al.id : al \in LinksOfProduct(id) }
     IN /\ products' = { p \in products : p.id # id }
        /\ affiliate_links' = affiliate_links \ LinksOfProduct(id)
        /\ clicks' = { c \in clicks : c.link_id \notin gone }
        /\ conversions' = { c \in conversions : c.link_id \notin gone }
  /\ res' = IF \E p \in products : p.id = id
            THEN Response("DeleteProducts", caller, "OK")
            ELSE Response("DeleteProducts", caller, "NotFound")
  /\ Unobserved
  /\ UNCHANGED << payouts, serial, now, payoutReqs, linkReqs, clickReqs, conversionReqs >>

----------------------------------------------------------------------------
(* Affiliate link routes *)

\* `${userId}-${productId}-${Date.now()}`
LinkCode(userId, productId, t) == << userId, productId, t >>

\* Codes a tracker may send: the code of every link, and one of no link
LinkCodes == { al.link_code : al \in affiliate_links } \cup { LinkCode(0, 0, 0) }

\* The lookup that never finds a link
ExistingLink_None(userId, productId) == {}

\* SELECT * FROM affiliate_links WHERE user_id = $1 AND product_id = $2
ExistingLink(userId, productId) ==
  { al \in affiliate_links : al.user_id = userId /\ al.product_id = productId }

\* POST /api/affiliate/generate up to its second await: the lookup
PostAffiliateGenerate(caller, productId) ==
  /\ IF ExistingLink(caller, productId) # {}
     THEN /\ res' = Response("PostAffiliateGenerate", caller, "OK")
          /\ UNCHANGED linkReqs
     ELSE /\ linkReqs' = linkReqs (+) SetToBag({ [user_id |-> caller, product_id |-> productId] })
          /\ UNCHANGED res
  /\ Unobserved
  /\ UNCHANGED << tables, serial, now, payoutReqs, clickReqs,
                  conversionReqs >>

\* The column without its UNIQUE constraint
LinkCodeTaken_Never(linkCode) == FALSE

\* link_code VARCHAR(255) UNIQUE NOT NULL: the INSERT fails when a row has the code
LinkCodeTaken(linkCode) == \E al \in affiliate_links : al.link_code = linkCode

\* product_id INTEGER REFERENCES products(id): the INSERT fails when no
\* product has the id
ProductExists(productId) == \E p \in products : p.id = productId

\* POST /api/affiliate/generate after the lookup: the INSERT.  nextval is
\* taken before the constraints are checked, so a failed INSERT skips an id.
PostAffiliateGenerateInsert(req) ==
  /\ BagIn(req, linkReqs)
  /\ linkReqs' = linkReqs (-) SetToBag({req})
  /\ serial' = [serial EXCEPT !.affiliate_links = @ + 1]
  /\ LET linkCode == LinkCode(req.user_id, req.product_id, now)
     IN IF ~ ProductExists(req.product_id) \/ LinkCodeTaken(linkCode)
        THEN /\ res' = Response("PostAffiliateGenerate", req.user_id, "Error")
             /\ UNCHANGED affiliate_links
        ELSE /\ affiliate_links' = affiliate_links \cup
                  { [ id |-> serial.affiliate_links + 1,
                      user_id |-> req.user_id,
                      product_id |-> req.product_id,
                      link_code |-> linkCode ] }
             /\ res' = Response("PostAffiliateGenerate", req.user_id, "OK")
  /\ Unobserved
  /\ UNCHANGED << products, clicks, conversions, payouts, now, payoutReqs, clickReqs,
                  conversionReqs >>

----------------------------------------------------------------------------
(* Tracking routes *)

\* The lookup without its WHERE clause
LinksByCode_NoWhere(linkCode) == affiliate_links

\* SELECT id FROM affiliate_links WHERE link_code = $1
LinksByCode(linkCode) == { al \in affiliate_links : al.link_code = linkCode }

\* POST /api/track/click, which needs no token, up to its second await: the
\* lookup of the link
PostTrackClick(linkCode) ==
  /\ IF LinksByCode(linkCode) = {}
     THEN /\ res' = Response("PostTrackClick", 0, "NotFound")
          /\ UNCHANGED clickReqs
     ELSE /\ clickReqs' = clickReqs (+)
               SetToBag({ [ link_id |-> (CHOOSE al \in LinksByCode(linkCode) : TRUE).id ] })
          /\ UNCHANGED res
  /\ Unobserved
  /\ UNCHANGED << tables, serial, now, payoutReqs, linkReqs, conversionReqs >>

\* The column without its REFERENCES constraint
LinkExists_Unchecked(link_id) == TRUE

\* link_id INTEGER REFERENCES affiliate_links(id): the INSERT of a click or a
\* conversion fails when no link has the id
LinkExists(link_id) == \E al \in affiliate_links : al.id = link_id

\* POST /api/track/click after the lookup: the INSERT.  nextval is taken
\* before the constraints are checked, so a failed INSERT skips an id.
PostTrackClickInsert(req) ==
  /\ BagIn(req, clickReqs)
  /\ clickReqs' = clickReqs (-) SetToBag({req})
  /\ serial' = [serial EXCEPT !.clicks = @ + 1]
  /\ IF LinkExists(req.link_id)
     THEN /\ clicks' = clicks \cup
               { [ id |-> serial.clicks + 1, link_id |-> req.link_id ] }
          /\ res' = Response("PostTrackClick", 0, "OK")
     ELSE /\ res' = Response("PostTrackClick", 0, "Error")
          /\ UNCHANGED clicks
  /\ Unobserved
  /\ UNCHANGED << products, affiliate_links, conversions, payouts, now,
                  payoutReqs, linkReqs, conversionReqs >>

\* SELECT al.id, p.commission_type, p.commission_value FROM affiliate_links al
\* JOIN products p ON al.product_id = p.id WHERE al.link_code = $1
LinkWithRule(linkCode) ==
  { [ id |-> al.id, commission_type |-> p.commission_type,
      commission_value |-> p.commission_value ] :
      al \in LinksByCode(linkCode),
      p \in { q \in products :
                \E l \in LinksByCode(linkCode) : l.product_id = q.id } }

\* POST /api/track/conversion up to its second await: the lookup of the link
\* and of the rule of its product
PostTrackConversion(caller, linkCode, amount) ==
  /\ isAdmin(caller)
  /\ IF LinkWithRule(linkCode) = {}
     THEN /\ res' = Response("PostTrackConversion", caller, "NotFound")
          /\ UNCHANGED conversionReqs
     ELSE /\ conversionReqs' = conversionReqs (+)
               SetToBag({ [ caller |-> caller,
                            link |-> CHOOSE r \in LinkWithRule(linkCode) : TRUE,
                            amount |-> amount ] })
          /\ UNCHANGED res
  /\ Unobserved
  /\ UNCHANGED << tables, serial, now, payoutReqs, linkReqs, clickReqs >>

\* POST /api/track/conversion after the lookup: the commission computed from
\* the row read, and the INSERT
PostTrackConversionInsert(req) ==
  /\ BagIn(req, conversionReqs)
  /\ conversionReqs' = conversionReqs (-) SetToBag({req})
  /\ serial' = [serial EXCEPT !.conversions = @ + 1]
  /\ LET commission == Commission(req.link.commission_type,
                                  req.link.commission_value, req.amount)
     IN IF LinkExists(req.link.id)
        THEN /\ conversions' = conversions \cup
                  { [ id |-> serial.conversions + 1,
                      link_id |-> req.link.id,
                      amount |-> req.amount,
                      commission |-> StoredCommission(commission) ] }
             /\ res' = Response("PostTrackConversion", req.caller, "OK")
        ELSE /\ res' = Response("PostTrackConversion", req.caller, "Error")
             /\ UNCHANGED conversions
  /\ Unobserved
  /\ UNCHANGED << products, affiliate_links, clicks, payouts, now,
                  payoutReqs, linkReqs, clickReqs >>

----------------------------------------------------------------------------
(* Payout routes *)

\* The check refusing only amounts that are not positive
BelowMinimum_NonPositive(amount) == amount <= 0

\* if (amount < 10)
BelowMinimum(amount) == amount < MinimumPayout

\* if (amount > availableBalance)
Insufficient(amount, balance) == amount > balance

\* POST /api/payouts/request up to its second await: the minimum check, the
\* balance query and the comparison with its result
PostPayoutsRequest(caller, amount) ==
  /\ IF BelowMinimum(amount)
     THEN /\ res' = Response("PostPayoutsRequest", caller, "InvalidAmount")
          /\ Unobserved
          /\ UNCHANGED payoutReqs
     ELSE IF Insufficient(amount, availableBalance(caller))
     THEN /\ res' = Response("PostPayoutsRequest", caller, "InsufficientBalance")
          /\ Unobserved
          /\ UNCHANGED payoutReqs
     ELSE /\ payoutReqs' = payoutReqs (+)
               SetToBag({ [user_id |-> caller, amount |-> amount] })
          /\ release' = [ phase |-> "read", user_id |-> caller, amount |-> amount,
                          id |-> 0, balance |-> availableBalance(caller) ]
          /\ race' =
               IF race.user_id = caller /\ race.inserts = 0
               THEN [race EXCEPT !.calls = @ + 1]
               ELSE IF PayoutReqsOf(caller) = {}
               THEN [ user_id |-> caller, calls |-> 1,
                      balance |-> availableBalance(caller),
                      inserts |-> 0, inserted |-> 0 ]
               ELSE NoRace
          /\ UNCHANGED res
  /\ UNCHANGED << tables, serial, now, linkReqs, clickReqs,
                  conversionReqs >>

\* INSERT INTO payouts (user_id, amount, payment_method, payment_details):
\* status takes its DEFAULT 'pending', processed_at stays NULL
InsertPayout(id, req) ==
  payouts \cup
    { [ id |-> id,
        user_id |-> req.user_id,
        amount |-> req.amount,
        status |-> "pending",
        processed_at |-> NullTime ] }

\* POST /api/payouts/request after the balance check: the INSERT
PostPayoutsRequestInsert(req) ==
  /\ BagIn(req, payoutReqs)
  /\ payoutReqs' = payoutReqs (-) SetToBag({req})
  /\ serial' = [serial EXCEPT !.payouts = @ + 1]
  /\ payouts' = InsertPayout(serial.payouts + 1, req)
  /\ res' = Response("PostPayoutsRequest", req.user_id, "OK")
  /\ release' =
       IF /\ release.phase = "read"
          /\ release.user_id = req.user_id
          /\ release.amount = req.amount
       THEN [release EXCEPT !.phase = "inserted", !.id = serial.payouts + 1]
       ELSE NoRelease
  /\ race' =
       IF race.user_id = req.user_id
       THEN [race EXCEPT !.inserts = @ + 1, !.inserted = @ + req.amount]
       ELSE NoRace
  /\ UNCHANGED << products, affiliate_links, clicks, conversions, now, linkReqs, clickReqs,
                  conversionReqs >>

\* Payout ids an admin may send: every id handed out, and the next one
PayoutIds == 1 .. (serial.payouts + 1)

\* The UPDATE without its WHERE clause
PayoutsById_NoWhere(id) == payouts

\* The rows the UPDATE touches: WHERE id = $2
PayoutsById(id) == { p \in payouts : p.id = id }

\* UPDATE payouts SET status = $1, processed_at = CURRENT_TIMESTAMP WHERE id = $2
UpdatePayouts(id, status) ==
  (payouts \ PayoutsById(id)) \cup
    { [p EXCEPT !.status = status, !.processed_at = << now >>] : p \in PayoutsById(id) }

\* PUT /api/admin/payouts/:id
PutAdminPayouts(caller, id, status) ==
  /\ isAdmin(caller)
  /\ payouts' = UpdatePayouts(id, status)
  /\ res' = IF PayoutsById(id) = {}
            THEN Response("PutAdminPayouts", caller, "NotFound")
            ELSE Response("PutAdminPayouts", caller, "OK")
  /\ release' =
       IF /\ release.phase = "inserted"
          /\ release.id = id
          /\ status = "rejected"
       THEN [release EXCEPT !.phase = "rejected"]
       ELSE NoRelease
  /\ race' = NoRace
  /\ UNCHANGED << products, affiliate_links, clicks, conversions, serial, now,
                  payoutReqs, linkReqs, clickReqs, conversionReqs >>

----------------------------------------------------------------------------
(* The whole system, from the empty tables *)

Bounded ==
  serial.products + serial.affiliate_links + serial.clicks
    + serial.conversions + serial.payouts + Inflight + now <= MaxWork

Next ==
  \/ Tick /\ Bounded'
  \/ \E caller \in UserIds, op \in AdminRoutes : AdminRequired(caller, op)
  \/ \E caller \in UserIds, rule \in CommissionRules :
       PostProducts(caller, rule) /\ Bounded'
  \/ \E caller \in UserIds, id \in ProductIds, rule \in CommissionRules :
       PutProducts(caller, id, rule)
  \/ \E caller \in UserIds, id \in ProductIds : DeleteProducts(caller, id)
  \/ \E caller \in UserIds, productId \in ProductIds :
       PostAffiliateGenerate(caller, productId) /\ Bounded'
  \/ \E req \in BagToSet(linkReqs) : PostAffiliateGenerateInsert(req) /\ Bounded'
  \/ \E linkCode \in LinkCodes : PostTrackClick(linkCode) /\ Bounded'
  \/ \E req \in BagToSet(clickReqs) : PostTrackClickInsert(req) /\ Bounded'
  \/ \E caller \in UserIds, linkCode \in LinkCodes, amount \in SaleAmounts :
       PostTrackConversion(caller, linkCode, amount) /\ Bounded'
  \/ \E req \in BagToSet(conversionReqs) : PostTrackConversionInsert(req) /\ Bounded'
  \/ \E caller \in UserIds, amount \in PayoutAmounts :
       PostPayoutsRequest(caller, amount) /\ Bounded'
  \/ \E req \in BagToSet(payoutReqs) : PostPayoutsRequestInsert(req) /\ Bounded'
  \/ \E caller \in UserIds, id \in PayoutIds, status \in Statuses :
       PutAdminPayouts(caller, id, status)

Spec == Init /\ [][Next]_vars

----------------------------------------------------------------------------
(* The payout ledger: conversions, payout requests and status updates, from
   a state in which an admin has created a product and both users have
   generated their link to it *)

InitLedger ==
  /\ products = { [id |-> 1, commission_type |-> "percentage", commission_value |-> 2000] }
  /\ affiliate_links =
       { [id |-> u, user_id |-> u, product_id |-> 1, link_code |-> LinkCode(u, 1, 0)] :
           u \in UserIds }
  /\ clicks = {}
  /\ conversions = {}
  /\ payouts = {}
  /\ serial = [ products |-> 1, affiliate_links |-> Cardinality(UserIds), clicks |-> 0,
                conversions |-> 0, payouts |-> 0 ]
  /\ now = 0
  /\ payoutReqs = EmptyBag
  /\ linkReqs = EmptyBag
  /\ clickReqs = EmptyBag
  /\ conversionReqs = EmptyBag
  /\ res = Response("none", 0, "none")
  /\ release = NoRelease
  /\ race = NoRace

\* Every request in flight is counted with the id its INSERT will take
LedgerBounded ==
  /\ serial.conversions + BagCardinality(conversionReqs) <= LedgerMaxConversions
  /\ serial.payouts + BagCardinality(payoutReqs) <= LedgerMaxPayouts

NextLedger ==
  \/ \E caller \in UserIds : AdminRequired(caller, "PostTrackConversion")
  \/ \E caller \in UserIds : AdminRequired(caller, "PutAdminPayouts")
  \/ \E caller \in UserIds, linkCode \in LinkCodes, amount \in LedgerSaleAmounts :
       PostTrackConversion(caller, linkCode, amount) /\ LedgerBounded'
  \/ \E req \in BagToSet(conversionReqs) :
       PostTrackConversionInsert(req) /\ LedgerBounded'
  \/ \E caller \in UserIds, amount \in PayoutAmounts :
       PostPayoutsRequest(caller, amount) /\ LedgerBounded'
  \/ \E req \in BagToSet(payoutReqs) : PostPayoutsRequestInsert(req) /\ LedgerBounded'
  \/ \E caller \in UserIds, id \in PayoutIds, status \in Statuses :
       PutAdminPayouts(caller, id, status)

SpecLedger == InitLedger /\ [][NextLedger]_vars

----------------------------------------------------------------------------
(* Properties of the balance and payout ledger *)

\* The users whose row has is_admin set
AdminIds == { u.id : u \in { v \in users : v.is_admin } }

\* The statuses of a payout that is not rejected
NonRejected == { "pending", "approved", "paid" }

\* Commissions of u minus the amounts of the payouts of u that are not rejected
NonRejectedBalance(u) ==
  SumCommission(ConversionsOf(u))
    - SumAmount({ p \in payouts : p.user_id = u /\ p.status \in NonRejected })

\* C1: in every reachable state and for every user, the balance that
\* requestPayout checks against, and that the balance query reports, is the
\* sum of the user's commissions minus the amounts of the user's pending,
\* approved and paid payouts.
C1_BalanceCountsNonRejected ==
  \A u \in UserIds :
    /\ availableBalance(u) = NonRejectedBalance(u)
    /\ PayoutsBalance(u).available_balance = NonRejectedBalance(u)

\* C2: a request of at least the minimum is refused with InsufficientBalance,
\* inserting nothing, when its amount exceeds the commissions minus the
\* non-rejected payouts of the caller; otherwise it is accepted and leaves
\* exactly one new row, of that user and amount, with status pending.
C2_RequestGatedByBalance ==
  [][ /\ \A caller \in UserIds, amount \in PayoutAmounts :
           (amount >= MinimumPayout /\ PostPayoutsRequest(caller, amount)) =>
             IF amount > NonRejectedBalance(caller)
             THEN /\ res' = Response("PostPayoutsRequest", caller, "InsufficientBalance")
                  /\ payoutReqs' = payoutReqs
                  /\ payouts' = payouts
             ELSE payoutReqs' = payoutReqs (+)
                    SetToBag({ [user_id |-> caller, amount |-> amount] })
      /\ \A req \in BagToSet(payoutReqs) :
           PostPayoutsRequestInsert(req) =>
             /\ res' = Response("PostPayoutsRequest", req.user_id, "OK")
             /\ payouts \subseteq payouts'
             /\ \E p \in payouts' :
                  /\ payouts' \ payouts = {p}
                  /\ p.user_id = req.user_id
                  /\ p.amount = req.amount
                  /\ p.status = "pending"
    ]_vars

\* C3: for every user, commissions minus non-rejected payout amounts is never
\* negative.
C3_BalanceNeverNegative == \A u \in UserIds : NonRejectedBalance(u) >= 0

\* C4: for every user, the amounts of the paid payouts never exceed the
\* commissions of the conversions on the user's links.
C4_NeverDoublePaid ==
  \A u \in UserIds :
    SumAmount({ p \in payouts : p.user_id = u /\ p.status = "paid" })
      <= SumCommission(ConversionsOf(u))

\* C5: when two or more requests of one user have all read the balance
\* before any of them inserts, and they all insert, the rows they insert sum
\* to at most the balance the user held before the calls.
C5_ConcurrentRequestsFit ==
  (race.calls >= 2 /\ race.inserts = race.calls) => race.inserted <= race.balance

\* C6: a request below the minimum payout is refused with InvalidAmount
\* whatever the caller's balance, and neither inserts nor will insert a row.
C6_BelowMinimumRefused ==
  [][ \A caller \in UserIds, amount \in PayoutAmounts :
        (amount < MinimumPayout /\ PostPayoutsRequest(caller, amount)) =>
          /\ res' = Response("PostPayoutsRequest", caller, "InvalidAmount")
          /\ payouts' = payouts
          /\ payoutReqs' = payoutReqs
    ]_vars

\* C6 happens: a caller who could afford the minimum was refused for the amount
C6_Witness ==
  \E u \in UserIds :
    /\ res = Response("PostPayoutsRequest", u, "InvalidAmount")
    /\ availableBalance(u) >= MinimumPayout

\* C7: once a request has been accepted and its payout rejected with nothing
\* in between, the user's balance is what it was before the request, in both
\* balance queries; and no rejected payout counts against any balance.
C7_RejectedReleasesBalance ==
  /\ release.phase = "rejected" =>
       /\ availableBalance(release.user_id) = release.balance
       /\ PayoutsBalance(release.user_id).available_balance = release.balance
  /\ \A u \in UserIds :
       availableBalance(u) = BalanceOver(u, { p \in payouts : p.status # "rejected" })

\* C7 happens: a payout was requested and rejected at once
C7_Witness ==
  /\ release.phase = "rejected"
  /\ \E p \in payouts :
       /\ p.id = release.id
       /\ p.user_id = release.user_id
       /\ p.status = "rejected"
       /\ p.amount >= MinimumPayout

ForwardOnly ==
  { << "pending", "approved" >>, << "pending", "rejected" >>, << "approved", "paid" >> }

\* C8: every change of a payout's status is pending -> approved, pending ->
\* rejected or approved -> paid, so that rejected and paid are final.
C8_StatusForwardOnly ==
  [][ \A p \in payouts : \A q \in payouts' :
        (q.id = p.id /\ q.status # p.status) => << p.status, q.status >> \in ForwardOnly
    ]_vars

\* C9: setPayoutStatus on an id that no payout has answers NotFound and leaves
\* every payout row as it was.
C9_UnknownPayoutNotFound ==
  [][ \A caller \in UserIds, id \in PayoutIds, status \in Statuses :
        (PutAdminPayouts(caller, id, status) /\ ~ \E p \in payouts : p.id = id) =>
          /\ res' = Response("PutAdminPayouts", caller, "NotFound")
          /\ payouts' = payouts
    ]_vars

\* C9 happens: NotFound was answered while payouts existed
C9_Witness ==
  /\ res.op = "PutAdminPayouts"
  /\ res.kind = "NotFound"
  /\ payouts # {}

----------------------------------------------------------------------------
(* Properties of the attribution pipeline *)

\* The conversion rows a step adds
NewConversions == conversions' \ conversions

\* The rule of the product a link code leads to, as a set of (type, value)
RuleByCode(linkCode) ==
  { [ commission_type |-> p.commission_type, commission_value |-> p.commission_value ] :
      p \in { q \in products :
                \E al \in affiliate_links :
                  al.link_code = linkCode /\ al.product_id = q.id } }

\* C11: the rule a conversion report reads is the rule its product has at the
\* time of the call, and the commission of the row it inserts is
\* amount * value / 100 when that rule is a percentage and value, whatever the
\* amount, when it is fixed.
C11_CommissionByRule ==
  [][ /\ \A caller \in UserIds, linkCode \in LinkCodes, amount \in SaleAmounts :
           PostTrackConversion(caller, linkCode, amount) =>
             \A req \in BagToSet(conversionReqs') :
               ~ BagIn(req, conversionReqs) =>
                 [ commission_type |-> req.link.commission_type,
                   commission_value |-> req.link.commission_value ]
                   \in RuleByCode(linkCode)
      /\ \A req \in BagToSet(conversionReqs) :
           (PostTrackConversionInsert(req) /\ LinkExists(req.link.id)) =>
             \E c \in NewConversions :
               /\ NewConversions = {c}
               /\ c.amount = req.amount
               /\ IF req.link.commission_type = "percentage"
                  THEN c.commission * (100 * 100)
                         = req.amount * req.link.commission_value
                  ELSE c.commission = req.link.commission_value
    ]_vars

\* The commission the rule that the product of a conversion has now would give
CommissionNow(c) ==
  { StoredCommission(Commission(p.commission_type, p.commission_value, c.amount)) :
      p \in { q \in products :
                \E al \in affiliate_links : al.id = c.link_id /\ al.product_id = q.id } }

\* C12: no step changes the commission of a conversion row; an update of a
\* product leaves every conversion row, every total earned and every available
\* balance as it was; and a conversion report made after the update reads the
\* updated rule.
C12_CommissionFrozen ==
  [][ /\ \A c \in conversions : \A d \in conversions' : d.id = c.id => d = c
      /\ \A caller \in UserIds, id \in ProductIds, rule \in CommissionRules :
           PutProducts(caller, id, rule) =>
             /\ conversions' = conversions
             /\ \A u \in UserIds :
                  /\ PayoutsBalance(u)' = PayoutsBalance(u)
                  /\ availableBalance(u)' = availableBalance(u)
             /\ \A linkCode \in LinkCodes :
                  \A r \in LinkWithRule(linkCode)' :
                    \A al \in LinksByCode(linkCode) :
                      al.product_id = id =>
                        /\ r.commission_type = rule.commission_type
                        /\ r.commission_value = rule.commission_value
    ]_vars

\* C12 happens: a product was updated while a conversion of it stood at a
\* commission its new rule would not give
C12_Witness ==
  /\ res.op = "PutProducts"
  /\ res.kind = "OK"
  /\ \E c \in conversions : c.commission \notin CommissionNow(c)
  /\ \E u \in UserIds : PayoutsBalance(u).total_earned > 0

\* The links a code resolves to, and their owners
Resolved(linkCode) == { al \in affiliate_links : al.link_code = linkCode }

\* SUM of the commissions of the conversions on the links of u
TotalEarned(u) == PayoutsBalance(u).total_earned

\* C13: a conversion report whose code resolves to no link is answered
\* NotFound and neither inserts nor will insert a row; one whose code resolves
\* goes on to insert, and its INSERT adds exactly one row, attached to that
\* link, which raises the total earned of the owner of the link by its
\* commission and that of nobody else (when the link was deleted since the
\* lookup the INSERT fails and adds nothing).
C13_ConversionAttributed ==
  [][ /\ \A caller \in UserIds, linkCode \in LinkCodes, amount \in SaleAmounts :
           PostTrackConversion(caller, linkCode, amount) =>
             /\ conversions' = conversions
             /\ IF Resolved(linkCode) = {}
                THEN /\ res' = Response("PostTrackConversion", caller, "NotFound")
                     /\ conversionReqs' = conversionReqs
                ELSE \E req \in BagToSet(conversionReqs') :
                       /\ conversionReqs' = conversionReqs (+) SetToBag({req})
                       /\ req.amount = amount
                       /\ \A al \in Resolved(linkCode) : req.link.id = al.id
      /\ \A req \in BagToSet(conversionReqs) :
           PostTrackConversionInsert(req) =>
             IF \E al \in affiliate_links : al.id = req.link.id
             THEN \E c \in NewConversions :
                    /\ NewConversions = {c}
                    /\ conversions \subseteq conversions'
                    /\ c.link_id = req.link.id
                    /\ res' = Response("PostTrackConversion", req.caller, "OK")
                    /\ \A u \in UserIds :
                         TotalEarned(u)' = TotalEarned(u) +
                           IF \E al \in affiliate_links :
                                al.id = c.link_id /\ al.user_id = u
                           THEN c.commission ELSE 0
             ELSE /\ conversions' = conversions
                  /\ res'.kind = "Error"
    ]_vars

\* C13 happens: a conversion was recorded on the link of one user, who alone
\* has earned from it, while another user holds a link too
C13_Witness ==
  /\ res.op = "PostTrackConversion"
  /\ res.kind = "OK"
  /\ \E u \in UserIds, v \in UserIds :
       /\ u # v
       /\ TotalEarned(u) > 0
       /\ TotalEarned(v) = 0
       /\ \E al \in affiliate_links : al.user_id = v

\* C14: a click report whose code resolves to no link is answered NotFound and
\* neither inserts nor will insert a click; one whose code resolves goes on to
\* insert, and its INSERT adds exactly one click, of that link (none when the
\* link was deleted since the lookup).  Neither step changes a product, a
\* link, a conversion, a payout or the available balance of any user.
C14_ClickOnlyAppends ==
  [][ /\ \A linkCode \in LinkCodes :
           PostTrackClick(linkCode) =>
             /\ tables' = tables
             /\ IF Resolved(linkCode) = {}
                THEN /\ res' = Response("PostTrackClick", 0, "NotFound")
                     /\ clickReqs' = clickReqs
                ELSE \E al \in Resolved(linkCode) :
                       clickReqs' = clickReqs (+) SetToBag({ [link_id |-> al.id] })
      /\ \A req \in BagToSet(clickReqs) :
           PostTrackClickInsert(req) =>
             /\ << products, affiliate_links, conversions, payouts >>'
                  = << products, affiliate_links, conversions, payouts >>
             /\ << payoutReqs, conversionReqs >>' = << payoutReqs, conversionReqs >>
             /\ \A u \in UserIds :
                  /\ availableBalance(u)' = availableBalance(u)
                  /\ PayoutsBalance(u)' = PayoutsBalance(u)
             /\ IF \E al \in affiliate_links : al.id = req.link_id
                THEN \E c \in clicks' :
                       /\ c \notin clicks
                       /\ clicks' = clicks \cup {c}
                       /\ c.link_id = req.link_id
                       /\ res' = Response("PostTrackClick", 0, "OK")
                ELSE /\ clicks' = clicks
                     /\ res'.kind = "Error"
    ]_vars

\* C14 happens: a click was recorded on a link whose owner holds a balance
C14_Witness ==
  /\ res = Response("PostTrackClick", 0, "OK")
  /\ \E c \in clicks, al \in affiliate_links :
       /\ al.id = c.link_id
       /\ availableBalance(al.user_id) > 0

\* The link rows of a (user, product) pair
LinksOfPair(u, p) == { al \in affiliate_links : al.user_id = u /\ al.product_id = p }

\* The generate requests of a pair that are past their lookup
LinkReqsOfPair(u, p) ==
  { req \in BagToSet(linkReqs) : req.user_id = u /\ req.product_id = p }

\* C15: with no other call for the pair under way, a call for a pair that
\* has no link and an existing product ends with exactly one link row of the
\* pair; a call for a pair that has its one link is answered with that row
\* and neither inserts nor will insert a row; and no step changes the id or
\* the code of a link row.
C15_GenerateIdempotent ==
  [][ /\ \A al \in affiliate_links : \A bl \in affiliate_links' : bl.id = al.id => bl = al
      /\ \A caller \in UserIds, productId \in ProductIds :
           ( /\ PostAffiliateGenerate(caller, productId)
             /\ Cardinality(LinksOfPair(caller, productId)) = 1
             /\ LinkReqsOfPair(caller, productId) = {} ) =>
               /\ res' = Response("PostAffiliateGenerate", caller, "OK")
               /\ affiliate_links' = affiliate_links
               /\ linkReqs' = linkReqs
               /\ serial' = serial
      /\ \A req \in BagToSet(linkReqs) :
           ( /\ PostAffiliateGenerateInsert(req)
             /\ LinksOfPair(req.user_id, req.product_id) = {}
             /\ CopiesIn(req, linkReqs) = 1
             /\ \E p \in products : p.id = req.product_id ) =>
               /\ res' = Response("PostAffiliateGenerate", req.user_id, "OK")
               /\ Cardinality(LinksOfPair(req.user_id, req.product_id)') = 1
    ]_vars

\* C15 happens: a user whose one link had already been clicked called again
\* and was answered, and still has that one link
C15_Witness ==
  \E u \in UserIds :
    /\ res = Response("PostAffiliateGenerate", u, "OK")
    /\ linkReqs = EmptyBag
    /\ Cardinality({ al \in affiliate_links : al.user_id = u }) = 1
    /\ \E c \in clicks, al \in affiliate_links : al.id = c.link_id /\ al.user_id = u

\* C16: in every reachable state, however the lookups and INSERTs of generate
\* calls interleave, a (user, product) pair has at most one link row.
C16_OneLinkPerPair ==
  \A u \in UserIds, p \in ProductIds : Cardinality(LinksOfPair(u, p)) <= 1

C18_UnknownProductNotFound ==
  [][ /\ \A caller \in UserIds, productId \in ProductIds :
           ( /\ PostAffiliateGenerate(caller, productId)
             /\ ~ \E p \in products : p.id = productId ) =>
               affiliate_links' = affiliate_links
      /\ \A req \in BagToSet(linkReqs) :
           ( /\ PostAffiliateGenerateInsert(req)
             /\ ~ \E p \in products : p.id = req.product_id ) =>
               /\ affiliate_links' = affiliate_links
               /\ res' = Response("PostAffiliateGenerate", req.user_id, "NotFound")
    ]_vars

\* C19: no step of any operation lowers the total earned of a user.
C19_EarningsNeverLost ==
  [][ \A u \in UserIds : TotalEarned(u)' >= TotalEarned(u) ]_vars

----------------------------------------------------------------------------
(* Agreement of the two balance queries *)

\* C21: in every reachable state of the ledger and for every user, the
\* available_balance the balance query reports is the balance a payout
\* request compares its amount against, and the total_paid it reports is the
\* sum that request subtracts.
C21_BalanceQueriesAgree ==
  \A u \in UserIds :
    /\ PayoutsBalance(u).available_balance = availableBalance(u)
    /\ PayoutsBalance(u).total_paid = TotalPaid(u, payouts)

\* C21 happens: a user who has earned has a paid payout, beside a payout that
\* is not paid or is of another user
C21_Witness ==
  \E u \in UserIds :
    /\ PayoutsBalance(u).total_earned > 0
    /\ \E p \in payouts : p.user_id = u /\ p.status = "paid"
    /\ \E p \in payouts : p.user_id # u \/ p.status # "paid"

====
